---- MODULE Spec2Model ----
(***************************************************************************)
(* Model of the collaborative editor core of collab-web-editor:            *)
(*   - AutomergeBinding (src/codemirror-binding.js): the bridge between a  *)
(*     CodeMirror EditorView and an Automerge document handle;             *)
(*   - AutomergeSync (src/automerge-sync.js): the document session.        *)
(* Texts are sequences of characters.  Every handler of the source is one  *)
(* action; the calls it makes synchronously (handle.change -> 'change'     *)
(* listeners -> _handleRemoteChange -> view.dispatch -> updateListener ->  *)
(* applyLocalChange) are computed by the operators below on a record of    *)
(* the binding's state, in the order the code runs them.                   *)
(***************************************************************************)
EXTENDS Integers, Sequences, FiniteSets, TLC

\* ------------------------------------------------------------------ bounds
LocalChars == {"b"}
RemoteChars == {"a"}
Chars == LocalChars \cup RemoteChars
MaxLen == 3          \* longest editor / document text explored
MaxRanges == 2       \* changed ranges in one editor update
MaxRemoteOps == 1    \* remote splices reported by one change notification
NumDocs == 2         \* documents the session may create or open
MaxCalls == 2        \* openDocument calls the session makes
MaxSel == 10         \* longest text whose selection is clamped
MaxPeerEdits == 1    \* edits each of two sessions makes on a shared document
MaxPatches == 2      \* patches of a change notification examined on its own
NumCallbacks == 2    \* callbacks registered with the session's event emitter
NumWaits == 4        \* waitForDocumentReady calls on one handle
MAX_DOCUMENTS == 2   \* entries the registry keeps (20 in the source), scaled
NumRegIds == 3       \* document ids offered to the registry
MaxTime == 1         \* latest value Date.now() returns

VARIABLES
  \* --- AutomergeBinding and its two collaborators
  content,                 \* handle.doc().content, the shared text
  viewText,                \* view.state.doc.toString(), the editor text
  _isSyncingLocalChange,   \* AutomergeBinding._isSyncingLocalChange
  _attached,               \* AutomergeBinding._attached
  _changeHandler,          \* AutomergeBinding._changeHandler is set
  registered,              \* change handlers of the binding on the handle
  bound,                   \* setupEditorWithBinding has built view + binding
  pending,                 \* local changes whose network round trip is open
  last,                    \* what the last handler did (observation only)
  \* --- AutomergeSync and the repo behind it
  repo,                    \* AutomergeSync.repo is set
  _isConnected,            \* AutomergeSync._isConnected
  handle,                  \* AutomergeSync.handle: a document, or Null
  _documentId,             \* AutomergeSync._documentId: a document, or Null
  sync_changeHandler,      \* AutomergeSync._changeHandler: Null, or the document
                           \* on whose handle the closure was registered
  listeners,               \* per document handle: registered session closures
  known,                   \* documents created or asked for so far
  created,                 \* documents this session created
  story,                   \* the operations made so far, as a pattern
  calls,                   \* the openDocument calls in flight or just settled
  slast,                   \* what the last session operation did (observation)
  \* --- the functions of the binding examined on their own
  arg,                     \* the argument a function is applied to
  res,                     \* what it returned (<<>>: not applied yet)
  \* --- two sessions on one document
  greater,                 \* the session whose actor id compares greater
  replica,                 \* per session: its copy of the document
  sent,                    \* per session: the changes it has made, in order
  seen,                    \* per session: changes of the other it has merged
  \* --- the event emitter of the session
  _listeners,              \* EventEmitter._listeners: per event, its callbacks
                           \* in the order they were added
  unsubscribers,           \* the functions on() has returned, as <<event, callback>>
  elast,                   \* what the last call on the emitter did (observation)
  \* --- waitForDocumentReady
  waits,                   \* per call: its promise, its timer, its listener
  hdoc,                    \* what handle.doc() of the awaited handle gives
  \* --- the recent-documents registry
  recentDocuments,         \* localStorage['recentDocuments']: set or not, its list
  rlast                    \* what the last call on the registry was (observation)

bvars == <<content, viewText, _isSyncingLocalChange, _attached, _changeHandler,
           registered, bound, pending, last>>

svars == <<repo, _isConnected, handle, _documentId, sync_changeHandler, listeners,
           known, created, story, calls, slast>>

fvars == <<arg, res>>

pvars == <<greater, replica, sent, seen>>

evars == <<_listeners, unsubscribers, elast>>

wvars == <<waits, hdoc>>

rvars == <<recentDocuments, rlast>>

vars == <<bvars, svars, fvars, pvars, evars, wvars, rvars>>

\* ------------------------------------------------------------ text helpers
Texts == UNION {[1..n -> Chars] : n \in 0..MaxLen}

\* Automerge.splice(d, ['content'], pos, del, ins) on a text: the engine
\* rejects a range outside the text.
SpliceOK(text, pos, del) == pos >= 0 /\ del >= 0 /\ pos + del <= Len(text)

Splice(text, pos, del, ins) ==
  SubSeq(text, 1, pos) \o ins \o SubSeq(text, pos + del + 1, Len(text))

\* ------------------------------------------------- the Editor Surface
\* A change spec of a CodeMirror transaction: {from, to, insert}.
\* view.dispatch({changes: [...]}) takes every position of the array in the
\* coordinates of the document BEFORE the transaction, and raises a
\* RangeError when a range lies outside that document.
ValidChanges(text, changes) ==
  \A i \in 1..Len(changes) :
    /\ 0 <= changes[i].from
    /\ changes[i].from <= changes[i].to
    /\ changes[i].to <= Len(text)

RECURSIVE InsertsAt(_, _, _)
InsertsAt(changes, p, i) ==
  IF i > Len(changes) THEN <<>>
  ELSE (IF changes[i].from = p THEN changes[i].insert ELSE <<>>)
       \o InsertsAt(changes, p, i + 1)

DeletedAt(changes, p) ==
  \E i \in 1..Len(changes) : changes[i].from <= p /\ p < changes[i].to

RECURSIVE ApplyChanges(_, _, _)
ApplyChanges(text, changes, p) ==
  IF p >= Len(text) THEN InsertsAt(changes, p, 1)
  ELSE InsertsAt(changes, p, 1)
       \o (IF DeletedAt(changes, p) THEN <<>> ELSE <<text[p + 1]>>)
       \o ApplyChanges(text, changes, p + 1)

\* A change that neither deletes nor inserts is dropped by the editor.
EffectiveChanges(changes) ==
  SelectSeq(changes, LAMBDA c : c.from # c.to \/ Len(c.insert) > 0)

\* --------------------------------------------- the document handle
\* A property a patch does not have reads as undefined: a missing length as
\* Undefined, a missing value as UndefinedText.
Undefined == -1

UndefinedText == <<"undefined">>

\* patch.length || 0 and patch.value || ''
OrZero(x) == IF x = Undefined \/ x = 0 THEN 0 ELSE x

OrEmpty(x) == IF x = UndefinedText \/ x = <<>> THEN <<>> ELSE x

\* The patches handle.change reports for one splice: a deletion patch (with
\* a length, without a value) for the removed characters, then a splice
\* patch (with a value, without a length) for the inserted ones.
PatchesOfSplice(pos, del, ins) ==
  (IF del > 0
     THEN <<[action |-> "del", field |-> "content", index |-> pos,
             length |-> del, value |-> UndefinedText]>>
     ELSE <<>>)
  \o
  (IF Len(ins) > 0
     THEN <<[action |-> "splice", field |-> "content", index |-> pos,
             length |-> Undefined, value |-> ins]>>
     ELSE <<>>)


\* ------------------------------------------------- AutomergeBinding
\* The operators below work on a record m of the binding, its view and its
\* handle while one handler runs:
\*   content, view, guard (_isSyncingLocalChange), attached, handler
\*   (_changeHandler is set), registered (change handlers of this binding on
\*   the handle), and what the handler did so far: changeCalls (handle.change
\*   calls that mutated the document), notified (change notifications that
\*   reached _handleRemoteChange), echoSkips (of these, discarded by the
\*   guard), dispatches (view.dispatch calls), allTagged (each carried the
\*   isRemoteChange annotation), feedback (handle.change calls made while the
\*   editor reported one of the binding's own dispatches), route (the branch
\*   the last notification took), threw (an exception is propagating),
\*   returned (what the applyLocalChange call that ended last returned:
\*   "true", "false", or "none" when none has returned).
RECURSIVE applyLocalChange(_, _, _)
RECURSIVE forwardRanges(_, _, _, _)
RECURSIVE forwardRanges_Continue(_, _, _, _)
RECURSIVE handleChange(_, _, _, _, _)
RECURSIVE emitChange(_, _, _, _)
RECURSIVE _handleRemoteChange(_, _, _)
RECURSIVE _applyFullSync(_, _)
RECURSIVE viewDispatch(_, _, _)

\* The update the editor reports to its updateListener for one transaction.
UpdateOf(changes, tagged) ==
  [remote |-> tagged,
   docChanged |-> Len(EffectiveChanges(changes)) > 0,
   ranges |-> EffectiveChanges(changes)]

\* view.dispatch({changes, annotations}) followed by the updateListener that
\* setupEditorWithBinding installs, which hands the update to applyLocalChange.
viewDispatch(m, changes, tagged) ==
  IF ~ValidChanges(m.view, changes)
    THEN [m EXCEPT !.dispatches = @ + 1, !.allTagged = @ /\ tagged, !.threw = TRUE]
    ELSE LET m1 == [m EXCEPT !.view = ApplyChanges(m.view, changes, 0),
                             !.dispatches = @ + 1,
                             !.allTagged = @ /\ tagged]
             m2 == applyLocalChange(m1, UpdateOf(changes, tagged), 0)
         IN [m2 EXCEPT !.feedback = @ + (m2.changeCalls - m1.changeCalls)]

\* Variant: the derived edit ignores the patch's length.
PatchChanges_NoLength(patches) ==
  LET usable == SelectSeq(patches,
                  LAMBDA pt : pt.field = "content" /\ pt.action = "splice")
  IN [i \in 1..Len(usable) |->
        [from |-> usable[i].index,
         to |-> usable[i].index,
         insert |-> OrEmpty(usable[i].value)]]

\* The editor edits _handleRemoteChange derives from the patches.
PatchChanges(patches) ==
  LET usable == SelectSeq(patches,
                  LAMBDA pt : pt.field = "content" /\ pt.action = "splice")
  IN [i \in 1..Len(usable) |->
        [from |-> usable[i].index,
         to |-> usable[i].index + OrZero(usable[i].length),
         insert |-> OrEmpty(usable[i].value)]]

\* Variant: the full sync inserts the new text instead of replacing the old.
_applyFullSync_Insert(m, d) ==
  IF d.content # m.view
    THEN viewDispatch(m, <<[from |-> 0, to |-> 0, insert |-> d.content]>>, TRUE)
    ELSE m

\* Variant: the full-sync dispatch without the isRemoteChange annotation.
_applyFullSync_Untagged(m, d) ==
  IF d.content # m.view
    THEN viewDispatch(m, <<[from |-> 0, to |-> Len(m.view), insert |-> d.content]>>, FALSE)
    ELSE m

_applyFullSync(m, d) ==
  IF d.content # m.view
    THEN viewDispatch(m, <<[from |-> 0, to |-> Len(m.view), insert |-> d.content]>>, TRUE)
    ELSE m

\* Variant: a notification without content is not discarded.
_handleRemoteChange_NoUndefinedCheck(m, d, patches) ==
  IF m.guard
    THEN [m EXCEPT !.echoSkips = @ + 1, !.route = "echo"]
  ELSE IF Len(patches) > 0 /\ Len(PatchChanges(patches)) > 0
    THEN viewDispatch([m EXCEPT !.route = "patch"], PatchChanges(patches), TRUE)
  ELSE _applyFullSync([m EXCEPT !.route = "fullsync"], d)

\* Variant: the patch dispatch does not return; the full sync runs as well.
_handleRemoteChange_NoReturn(m, d, patches) ==
  IF m.guard
    THEN [m EXCEPT !.echoSkips = @ + 1, !.route = "echo"]
  ELSE IF ~d.hasContent
    THEN [m EXCEPT !.route = "undefined"]
  ELSE IF Len(patches) > 0 /\ Len(PatchChanges(patches)) > 0
    THEN _applyFullSync(
           viewDispatch([m EXCEPT !.route = "patch"], PatchChanges(patches), TRUE), d)
  ELSE _applyFullSync([m EXCEPT !.route = "fullsync"], d)

_handleRemoteChange(m, d, patches) ==
  IF m.guard
    THEN [m EXCEPT !.echoSkips = @ + 1, !.route = "echo"]
  ELSE IF ~d.hasContent
    THEN [m EXCEPT !.route = "undefined"]
  ELSE IF Len(patches) > 0 /\ Len(PatchChanges(patches)) > 0
    THEN viewDispatch([m EXCEPT !.route = "patch"], PatchChanges(patches), TRUE)
  ELSE _applyFullSync([m EXCEPT !.route = "fullsync"], d)

\* handle.emit('change', {doc, patches}): every registered handler of the
\* binding runs _handleRemoteChange; an exception of a handler propagates.
emitChange(m, d, patches, n) ==
  IF n = 0 \/ m.threw THEN m
  ELSE emitChange(_handleRemoteChange([m EXCEPT !.notified = @ + 1], d, patches),
                  d, patches, n - 1)

\* handle.change(d => Automerge.splice(d, ['content'], pos, del, ins)): the
\* mutation, then the synchronous 'change' notification.  fail: the call
\* throws (the engine rejects the range, or the handle is unusable).
handleChange(m, pos, del, ins, fail) ==
  IF fail \/ ~SpliceOK(m.content, pos, del)
    THEN [m EXCEPT !.threw = TRUE]
    ELSE LET m1 == [m EXCEPT !.content = Splice(m.content, pos, del, ins),
                             !.changeCalls = @ + 1]
         IN emitChange(m1, [hasContent |-> TRUE, content |-> m1.content],
                       PatchesOfSplice(pos, del, ins), m1.registered)

\* Variant: the loop goes on with the next range after a handle.change that
\* threw, and the exception is raised at the end.
forwardRanges_Continue(m, ranges, i, failAt) ==
  IF i > Len(ranges) THEN m
  ELSE LET m1 == handleChange(m, ranges[i].from, ranges[i].to - ranges[i].from,
                              ranges[i].insert, failAt = i)
           rest == forwardRanges_Continue([m1 EXCEPT !.threw = FALSE], ranges, i + 1,
                                          failAt)
       IN [rest EXCEPT !.threw = rest.threw \/ m1.threw]

\* The iterChanges loop of applyLocalChange, from range i on; failAt is the
\* range whose handle.change throws (0: none is made to).
forwardRanges(m, ranges, i, failAt) ==
  IF i > Len(ranges) \/ m.threw THEN m
  ELSE forwardRanges(
         handleChange(m, ranges[i].from, ranges[i].to - ranges[i].from,
                      ranges[i].insert, failAt = i),
         ranges, i + 1, failAt)

\* What a call that ran the loop returns: true, unless an exception leaves
\* it without a return value.
Returned(m) == IF m.threw THEN "none" ELSE "true"

\* Variant: the guard is never set.
applyLocalChange_NoGuard(m, update, failAt) ==
  IF update.remote THEN [m EXCEPT !.returned = "false"]
  ELSE IF ~update.docChanged THEN [m EXCEPT !.returned = "false"]
  ELSE LET m1 == forwardRanges(m, update.ranges, 1, failAt)
       IN [m1 EXCEPT !.guard = FALSE, !.returned = Returned(m1)]

\* Variant: the guard is cleared after the loop instead of in finally.
applyLocalChange_NoFinally(m, update, failAt) ==
  IF update.remote THEN [m EXCEPT !.returned = "false"]
  ELSE IF ~update.docChanged THEN [m EXCEPT !.returned = "false"]
  ELSE LET m1 == forwardRanges([m EXCEPT !.guard = TRUE], update.ranges, 1, failAt)
       IN IF m1.threw THEN m1 ELSE [m1 EXCEPT !.guard = FALSE, !.returned = "true"]

\* Variant: the guard is held until the server acknowledges, i.e. it is not
\* cleared when applyLocalChange returns.
applyLocalChange_HeldGuard(m, update, failAt) ==
  IF update.remote THEN [m EXCEPT !.returned = "false"]
  ELSE IF ~update.docChanged THEN [m EXCEPT !.returned = "false"]
  ELSE LET m1 == forwardRanges([m EXCEPT !.guard = TRUE], update.ranges, 1, failAt)
       IN [m1 EXCEPT !.returned = Returned(m1)]

\* Variant: the docChanged check is missing.
applyLocalChange_NoDocChanged(m, update, failAt) ==
  IF update.remote THEN [m EXCEPT !.returned = "false"]
  ELSE LET m1 == forwardRanges([m EXCEPT !.guard = TRUE], update.ranges, 1, failAt)
       IN [m1 EXCEPT !.guard = FALSE, !.returned = Returned(m1)]

applyLocalChange(m, update, failAt) ==
  IF update.remote THEN [m EXCEPT !.returned = "false"]
  ELSE IF ~update.docChanged THEN [m EXCEPT !.returned = "false"]
  ELSE LET m1 == forwardRanges([m EXCEPT !.guard = TRUE], update.ranges, 1, failAt)
       IN [m1 EXCEPT !.guard = FALSE, !.returned = Returned(m1)]

\* Variant: attach without the _attached check.
attach_Unchecked(m) ==
  [m EXCEPT !.handler = TRUE, !.registered = @ + 1, !.attached = TRUE]

attach(m) ==
  IF m.attached THEN m
  ELSE [m EXCEPT !.handler = TRUE, !.registered = @ + 1, !.attached = TRUE]

detach(m) ==
  IF ~m.attached THEN m
  ELSE [m EXCEPT !.registered = IF m.handler THEN @ - 1 ELSE @,
                 !.handler = FALSE,
                 !.attached = FALSE]

loadInitialContent(m, text) ==
  IF Len(text) = 0 THEN m
  ELSE viewDispatch(m, <<[from |-> 0, to |-> 0, insert |-> text]>>, TRUE)


\* --------------------------------------------- binding: inputs
\* The user types LocalChars, remote peers type RemoteChars.
LocalInserts == {<<>>} \cup {<<c>> : c \in LocalChars}

RemoteInserts == {<<>>} \cup {<<c>> : c \in RemoteChars}

\* One changed range of a user transaction on a text of length n, starting
\* at lo or later: it deletes at most one character and is not empty.
RangesFrom(n, lo) ==
  {[from |-> f, to |-> f + d, insert |-> x] :
     f \in lo..n, d \in 0..1, x \in LocalInserts}

\* The changed ranges iterChanges reports for a user transaction: in the
\* coordinates of the text before the update, ascending, with at least one
\* unchanged character between two ranges, none of them empty.
RECURSIVE RangeSeqs(_, _, _)
RangeSeqs(n, lo, k) ==
  IF k = 0 THEN {<<>>}
  ELSE {<<>>} \cup
       UNION {{<<r>> \o rest : rest \in RangeSeqs(n, r.to + 1, k - 1)} :
                r \in {q \in RangesFrom(n, lo) :
                         q.to <= n /\ (q.from # q.to \/ Len(q.insert) > 0)}}

UserRanges(text) == RangeSeqs(Len(text), 0, MaxRanges) \ {<<>>}

\* The splices of remote peers that one change notification reports, each
\* index relative to the document after the preceding splices.
RemoteOp(text) ==
  {op \in [pos : 0..Len(text), del : 0..1, ins : RemoteInserts] :
     /\ SpliceOK(text, op.pos, op.del)
     /\ (op.del > 0 \/ Len(op.ins) > 0)
     /\ Len(text) - op.del + Len(op.ins) <= MaxLen}

RECURSIVE RemoteOps(_, _)
RemoteOps(text, k) ==
  IF k = 0 THEN {<<>>}
  ELSE {<<>>} \cup
       UNION {{<<op>> \o rest :
                 rest \in RemoteOps(Splice(text, op.pos, op.del, op.ins), k - 1)} :
                op \in RemoteOp(text)}

RECURSIVE ApplyOps(_, _, _)
ApplyOps(text, ops, i) ==
  IF i > Len(ops) THEN text
  ELSE ApplyOps(Splice(text, ops[i].pos, ops[i].del, ops[i].ins), ops, i + 1)

\* How the backend reports the splices: "patches" (a deletion patch and an
\* insertion patch per splice), "combined" (one splice patch per splice,
\* with its length and value), "none" (no incremental patches).
PatchForms == {"patches", "combined", "none"}

RECURSIVE PatchesOfOps(_, _, _)
PatchesOfOps(ops, form, i) ==
  IF i > Len(ops) \/ form = "none" THEN <<>>
  ELSE (IF form = "combined"
          THEN <<[action |-> "splice", field |-> "content", index |-> ops[i].pos,
                  length |-> ops[i].del, value |-> ops[i].ins]>>
          ELSE PatchesOfSplice(ops[i].pos, ops[i].del, ops[i].ins))
       \o PatchesOfOps(ops, form, i + 1)

MetadataPatch ==
  [action |-> "put", field |-> "metadata", index |-> 0, length |-> 0, value |-> <<>>]

\* --------------------------------------------- binding: actions
M0 ==
  [content |-> content, view |-> viewText, guard |-> _isSyncingLocalChange,
   attached |-> _attached, handler |-> _changeHandler, registered |-> registered,
   changeCalls |-> 0, notified |-> 0, echoSkips |-> 0, dispatches |-> 0,
   allTagged |-> TRUE, feedback |-> 0, route |-> "none", threw |-> FALSE,
   returned |-> "none"]

\* What the handler op left behind, and what it did.
Commit(m, op, n) ==
  /\ Len(m.content) <= MaxLen
  /\ Len(m.view) <= MaxLen
  /\ content' = m.content
  /\ viewText' = m.view
  /\ _isSyncingLocalChange' = m.guard
  /\ _attached' = m.attached
  /\ _changeHandler' = m.handler
  /\ registered' = m.registered
  /\ UNCHANGED <<svars, fvars, pvars, evars, wvars, rvars>>
  /\ last' = [op |-> op, ranges |-> n, synced |-> content = viewText,
              wasPending |-> pending,
              changeCalls |-> m.changeCalls, notified |-> m.notified,
              echoSkips |-> m.echoSkips, dispatches |-> m.dispatches,
              allTagged |-> m.allTagged, feedback |-> m.feedback,
              route |-> m.route, threw |-> m.threw, returned |-> m.returned]

\* setupEditorWithBinding: create the editor (empty), the binding, attach it
\* and load the document's text.
SetupEditor ==
  /\ ~bound
  /\ bound' = TRUE
  /\ Commit(loadInitialContent(attach([M0 EXCEPT !.view = <<>>]), content), "setup", 0)
  /\ UNCHANGED pending

\* The user edits the text; the editor applies the transaction and its
\* updateListener calls applyLocalChange with the update.
LocalEdit ==
  /\ bound
  /\ \E rs \in UserRanges(viewText), failAt \in 0..MaxRanges :
       /\ failAt <= Len(rs)
       /\ LET m == applyLocalChange(
                     [M0 EXCEPT !.view = ApplyChanges(viewText, rs, 0)],
                     UpdateOf(rs, FALSE), failAt)
          IN /\ Commit(m, "local", Len(rs))
             /\ pending' = (pending \/ m.changeCalls > 0)
  /\ UNCHANGED bound

\* The user moves the cursor: the editor reports an update that changes no
\* text, and its updateListener calls applyLocalChange with it.
SelectionUpdate ==
  /\ bound
  /\ Commit(applyLocalChange(M0, UpdateOf(<<>>, FALSE), 0), "selection", 0)
  /\ UNCHANGED <<bound, pending>>

\* A change of a remote peer is merged into the document and the handle
\* notifies its listeners; the backend supplies the patches or none.
RemoteChange ==
  /\ \E ops \in RemoteOps(content, MaxRemoteOps) \ {<<>>}, form \in PatchForms :
       LET text == ApplyOps(content, ops, 1)
           m == emitChange([M0 EXCEPT !.content = text],
                           [hasContent |-> TRUE, content |-> text],
                           PatchesOfOps(ops, form, 1), registered)
       IN Commit(m, "remote", Len(ops))
  /\ UNCHANGED <<bound, pending>>

\* A remote peer changes the metadata only.
RemoteMetadataChange ==
  /\ Commit(emitChange(M0, [hasContent |-> TRUE, content |-> content],
                       <<MetadataPatch>>, registered), "metadata", 0)
  /\ UNCHANGED <<bound, pending>>

\* The sync server acknowledges the local changes sent so far.
Acknowledge ==
  /\ pending
  /\ pending' = FALSE
  /\ Commit(M0, "ack", 0)
  /\ UNCHANGED bound

Attach ==
  /\ bound
  /\ Commit(attach(M0), "attach", 0)
  /\ UNCHANGED <<bound, pending>>

Detach ==
  /\ bound
  /\ Commit(detach(M0), "detach", 0)
  /\ UNCHANGED <<bound, pending>>

BindingStart ==
  /\ content \in {t \in Texts : Len(t) <= 1}
  /\ viewText = <<>>
  /\ _isSyncingLocalChange = FALSE
  /\ _attached = FALSE
  /\ _changeHandler = FALSE
  /\ registered = 0
  /\ bound = FALSE
  /\ pending = FALSE
  /\ last = [op |-> "init", ranges |-> 0, synced |-> TRUE, wasPending |-> FALSE,
             changeCalls |-> 0, notified |-> 0, echoSkips |-> 0, dispatches |-> 0,
             allTagged |-> TRUE, feedback |-> 0, route |-> "none", threw |-> FALSE,
             returned |-> "none"]

\* ===================================================== AutomergeSync
Null == 0

Docs == 1..NumDocs

CallIds == 1..MaxCalls

\* The identifier a caller passes to openDocument: with or without the
\* "automerge:" prefix.
DocumentIds == [id : Docs, prefixed : BOOLEAN]

\* fullDocId = documentId.startsWith('automerge:') ? documentId
\*                                                 : `automerge:${documentId}`
FullDocId(documentId) == [id |-> documentId.id, prefixed |-> TRUE]

\* The handle repo.find(fullDocId) looks up: the document of that URL.
HandleOf(fullDocId) == fullDocId.id

\* The session while one operation runs: its fields, the closures on each
\* handle, and what the operation has done so far: out, the events it has
\* emitted other than 'remote-change'; remote, the 'remote-change' events it
\* has emitted; ready, the payload of the 'document-ready' it emitted; ret,
\* the document id it returned; built, the repositories it constructed;
\* offline, whether it was a connect() made while the sync server could not
\* be reached.
SR ==
  [repo |-> repo, conn |-> _isConnected, handle |-> handle, docId |-> _documentId,
   changeHandler |-> sync_changeHandler, listeners |-> listeners, out |-> <<>>,
   remote |-> 0, ready |-> <<>>, ret |-> Null, built |-> 0, offline |-> FALSE]

emit(sr, event) == [sr EXCEPT !.out = Append(@, event)]

\* this.emit('document-ready', {doc, handle, isNew})
emitReady(sr, payload) == [emit(sr, "document-ready") EXCEPT !.ready = <<payload>>]

\* A change of document d notifies every closure registered on its handle:
\* each closure of the session emits one 'remote-change'.
notify(sr, d) ==
  IF d \in DOMAIN sr.listeners THEN [sr EXCEPT !.remote = @ + sr.listeners[d]] ELSE sr

\* Variant: closeDocument forgets handle.off.
closeDocument_NoOff(sr) ==
  IF sr.handle = Null THEN sr
  ELSE emit([sr EXCEPT !.changeHandler = Null, !.handle = Null, !.docId = Null],
            "document-closed")

\* handle.off removes the closure only from the handle it was registered on.
closeDocument(sr) ==
  IF sr.handle = Null THEN sr
  ELSE LET s1 == IF sr.changeHandler # Null
                   THEN [sr EXCEPT
                           !.listeners[sr.handle] =
                             IF sr.changeHandler = sr.handle /\ @ > 0 THEN @ - 1 ELSE @,
                           !.changeHandler = Null]
                   ELSE sr
       IN emit([s1 EXCEPT !.handle = Null, !.docId = Null], "document-closed")

_setupChangeHandler(sr) ==
  [sr EXCEPT !.changeHandler = sr.handle, !.listeners[sr.handle] = @ + 1]

\* What this.handle.doc() returns once the handle is ready: nothing, a
\* document without a content field, or a document with its content.
DocShapes == {"missing", "noContent", "full"}

\* An openDocument call: where it stands (pc), the document asked for,
\* whether it emitted 'document-ready', why it rejected, and the shape of
\* the document it loaded ("none": it has not read one).
IdleCall ==
  [pc |-> "idle", doc |-> Null, ready |-> FALSE, cause |-> "none", loaded |-> "none"]

InFlight == {c \in CallIds : calls[c].pc \in {"find", "whenReady"}}

\* The openDocument call made last (calls are numbered in the order made).
Latest == Cardinality({c \in CallIds : calls[c].pc # "idle"})

\* story follows the operations of the session while they spell one of
\*   "create":     createDocument(), no open in flight;
\*   "createOpen": that, then openDocument(x), x another document;
\*   "open":       openDocument(a), no open in flight and no closure of the
\*                 session left on any handle once the call had closed the
\*                 active document;
\*   "openOpen":   that, then openDocument(b) while the first is in flight;
\* and is "other" as soon as any other operation runs.  first is the
\* document createDocument() made active.  Continuations of the calls and
\* mutations of documents (edits through the session included) are not
\* among these operations.
Other == [kind |-> "other", first |-> Null]

SessionCommit(sr, op, d, n) ==
  /\ repo' = sr.repo
  /\ _isConnected' = sr.conn
  /\ handle' = sr.handle
  /\ _documentId' = sr.docId
  /\ sync_changeHandler' = sr.changeHandler
  /\ listeners' = sr.listeners
  /\ slast' = [op |-> op, doc |-> d, out |-> sr.out, remoteChanges |-> n,
               ready |-> sr.ready, ret |-> sr.ret, built |-> sr.built,
               offline |-> sr.offline]
  /\ UNCHANGED <<bvars, fvars, pvars, evars, wvars, rvars>>

\* Variant: connect() builds a repository and announces it every time.
connect_Always(sr) ==
  emit([sr EXCEPT !.repo = TRUE, !.built = @ + 1, !.conn = TRUE], "connected")

\* connect(): returns at once when a repository exists; otherwise builds the
\* Repo (the WebSocket adapter connects in the background), sets
\* _isConnected and emits 'connected', whatever the state of the network.
connect(sr) ==
  IF sr.repo THEN sr
  ELSE emit([sr EXCEPT !.repo = TRUE, !.built = @ + 1, !.conn = TRUE], "connected")

\* network: whether the sync server can be reached when connect() is called.
Connect ==
  /\ \E network \in BOOLEAN :
       SessionCommit(connect([SR EXCEPT !.offline = ~network]), "connect", Null, 0)
  /\ story' = IF repo THEN story ELSE Other
  /\ UNCHANGED <<known, created, calls>>

\* Variant: disconnect() drops the repository and leaves the document open.
disconnect_NoClose(sr) ==
  emit([sr EXCEPT !.repo = FALSE, !.conn = FALSE], "disconnected")

\* Variant: disconnect() drops the repository and leaves _isConnected set.
disconnect_KeepsFlag(sr) ==
  LET s1 == IF sr.handle # Null THEN closeDocument(sr) ELSE sr
  IN emit([s1 EXCEPT !.repo = FALSE], "disconnected")

\* disconnect(): closes the open document, drops the repository, clears
\* _isConnected and emits 'disconnected'.
disconnect(sr) ==
  LET s1 == IF sr.handle # Null THEN closeDocument(sr) ELSE sr
  IN emit([s1 EXCEPT !.repo = FALSE, !.conn = FALSE], "disconnected")

Disconnect ==
  /\ SessionCommit(disconnect(SR), "disconnect", handle, 0)
  /\ story' = Other
  /\ UNCHANGED <<known, created, calls>>

\* if (!this.repo) throw new Error('Not connected. Call connect() first.')
NotConnected(sr) ==
  ~sr.repo

\* Document ids are opaque: repo.create() takes the next unused one.
FreshDocs == {d \in Docs \ known : \A x \in Docs \ known : d <= x}

\* The structure createDocument gives a new document (metadata.created, a
\* timestamp, is left out).
InitialDoc == [shape |-> "full", content |-> <<>>, metadata |-> [version |-> 1]]

\* Variant: the change handler is registered before the document is
\* initialised.
createDocument_HandlerFirst(sr, d) ==
  LET s1 == _setupChangeHandler([sr EXCEPT !.handle = d])
      s2 == notify(s1, d)
      s3 == [s2 EXCEPT !.docId = d]
      s4 == emitReady(s3, [doc |-> InitialDoc, handle |-> s3.handle, isNew |-> TRUE])
  IN [s4 EXCEPT !.ret = s4.docId]

\* createDocument on a connected session, d the document repo.create()
\* made: the initialising handle.change, the id, the change handler, the
\* 'document-ready' event, the returned id.
createDocument(sr, d) ==
  LET s1 == [sr EXCEPT !.handle = d]
      s2 == notify(s1, d)
      s3 == _setupChangeHandler([s2 EXCEPT !.docId = d])
      s4 == emitReady(s3, [doc |-> InitialDoc, handle |-> s3.handle, isNew |-> TRUE])
  IN [s4 EXCEPT !.ret = s4.docId]

\* createDocument: throws when there is no repository; repo.create() yields
\* a document no one has seen.
CreateDocument ==
  /\ IF NotConnected(SR)
       THEN /\ SessionCommit(SR, "createThrew", Null, 0)
            /\ story' = Other
            /\ UNCHANGED <<known, created>>
       ELSE \E d \in FreshDocs :
              /\ LET s == createDocument(SR, d)
                 IN SessionCommit(s, "create", d, s.remote)
              /\ known' = known \cup {d}
              /\ created' = created \cup {d}
              /\ story' = IF InFlight = {} THEN [kind |-> "create", first |-> d]
                          ELSE Other
  /\ UNCHANGED calls

\* openDocument up to its first await: the connection check, closing the
\* active document, and the repo.find request.
OpenDocument(c) ==
  /\ calls[c].pc = "idle"
  /\ c = Latest + 1
  /\ \E documentId \in DocumentIds :
       LET d == HandleOf(FullDocId(documentId))
           sr == IF handle # Null THEN closeDocument(SR) ELSE SR
       IN IF NotConnected(SR)
            THEN /\ SessionCommit(SR, "openThrew", d, 0)
                 /\ calls' = [calls EXCEPT ![c] = [IdleCall EXCEPT
                                !.pc = "rejected", !.doc = d, !.cause = "notConnected"]]
                 /\ story' = Other
                 /\ UNCHANGED known
            ELSE /\ SessionCommit(sr, "open", d, 0)
                 /\ calls' = [calls EXCEPT ![c] = [IdleCall EXCEPT !.pc = "find", !.doc = d]]
                 /\ known' = known \cup {d}
                 /\ story' =
                      IF story.kind = "create" /\ d # story.first
                        THEN [story EXCEPT !.kind = "createOpen"]
                      ELSE IF story.kind = "open" /\ InFlight = {Latest}
                        THEN [story EXCEPT !.kind = "openOpen"]
                      ELSE IF InFlight = {} /\ \A x \in Docs : sr.listeners[x] = 0
                        THEN [kind |-> "open", first |-> Null]
                      ELSE Other
  /\ UNCHANGED created

\* this.handle = await this.repo.find(fullDocId)
FindResolve(c) ==
  /\ calls[c].pc = "find"
  /\ SessionCommit([SR EXCEPT !.handle = calls[c].doc], "findResolved", calls[c].doc, 0)
  /\ calls' = [calls EXCEPT ![c].pc = "whenReady"]
  /\ UNCHANGED <<known, created, story>>

\* Variant: the catch block rethrows without emitting 'error'.
Rejected_Silent(c, cause) ==
  /\ SessionCommit(SR, "openRejected", calls[c].doc, 0)
  /\ calls' = [calls EXCEPT ![c].pc = "rejected", ![c].cause = cause]
  /\ UNCHANGED <<known, created, story>>

\* The catch block of openDocument: banner, 'error' event, rethrow.
Rejected(c, cause) ==
  /\ SessionCommit(emit(SR, "error"), "openRejected", calls[c].doc, 0)
  /\ calls' = [calls EXCEPT ![c].pc = "rejected", ![c].cause = cause]
  /\ UNCHANGED <<known, created, story>>

FindReject(c) ==
  /\ calls[c].pc = "find"
  /\ Rejected(c, "find")

WhenReadyReject(c) ==
  /\ calls[c].pc = "whenReady"
  /\ Rejected(c, "whenReady")

\* The continuation after await this.handle.whenReady().  It reads
\* this.handle as it is now.  doc: what this.handle.doc() returns (a
\* document this session created has its content).  Only a missing document
\* is rejected (if (!doc) throw); the content length of a document without
\* a content field is taken to be 0.
WhenReadyResolve(c) ==
  /\ calls[c].pc = "whenReady"
  /\ \E doc \in {x \in DocShapes : (handle = Null \/ handle \in created) => x = "full"} :
       IF handle = Null
         THEN Rejected(c, "noHandle")
       ELSE IF doc = "missing"
         THEN Rejected(c, "noDoc")
       ELSE /\ SessionCommit(
                 emitReady(_setupChangeHandler([SR EXCEPT !.docId = handle]),
                           [doc |-> [shape |-> doc], handle |-> handle, isNew |-> FALSE]),
                 "openResolved", handle, 0)
            /\ calls' = [calls EXCEPT ![c].pc = "resolved", ![c].ready = TRUE,
                                      ![c].loaded = doc]
            /\ UNCHANGED <<known, created, story>>

CloseDocument ==
  /\ SessionCommit(closeDocument(SR), "close", handle, 0)
  /\ story' = Other
  /\ UNCHANGED <<known, created, calls>>

\* A document some handle of the repo holds is mutated (locally or by a
\* peer): each session closure on that handle emits one 'remote-change'.
Mutate(d) ==
  /\ d \in known
  /\ SessionCommit(SR, "mutate", d, listeners[d])
  /\ UNCHANGED <<known, created, calls, story>>

SessionStart ==
  /\ repo = FALSE
  /\ _isConnected = FALSE
  /\ handle = Null
  /\ _documentId = Null
  /\ sync_changeHandler = Null
  /\ listeners = [d \in Docs |-> 0]
  /\ known = {}
  /\ created = {}
  /\ story = [kind |-> "other", first |-> Null]
  /\ calls = [c \in CallIds |-> IdleCall]
  /\ slast = [op |-> "init", doc |-> Null, out |-> <<>>, remoteChanges |-> 0,
              ready |-> <<>>, ret |-> Null, built |-> 0, offline |-> FALSE]

\* ------------------------------------- functions examined on their own
\* The patches a change notification can carry: any action on either field,
\* with or without a length, with or without a value.
PatchInputs ==
  [action : {"splice", "del", "put"}, field : {"content", "metadata"},
   index : 0..MaxLen, length : {Undefined} \cup (0..MaxLen),
   value : {UndefinedText, <<>>} \cup {<<c>> : c \in RemoteChars}]

PatchArgs == {[fn |-> "patch", patch |-> pt] : pt \in PatchInputs}

\* The patch loop of _handleRemoteChange on a notification of one patch.
TranslatePatch ==
  /\ arg.fn = "patch"
  /\ res = <<>>
  /\ res' = <<PatchChanges(<<arg.patch>>)>>
  /\ UNCHANGED <<arg, bvars, svars, pvars, evars, wvars, rvars>>

\* Math.min
Min(a, b) == IF a < b THEN a ELSE b

\* Variant: the selection is kept as it was.
FullSyncSelection_Unclamped(selection, newLength) ==
  [anchor |-> selection.anchor, head |-> selection.head]

\* The selection _applyFullSync sets with its dispatch: the old one, each
\* end clamped to the length of the new text.
FullSyncSelection(selection, newLength) ==
  [anchor |-> Min(selection.anchor, newLength),
   head |-> Min(selection.head, newLength)]

\* An old text (by its length), a selection within it, and a new text.
SelectionArgs ==
  {x \in [fn : {"selection"}, oldLength : 0..MaxSel, anchor : 0..MaxSel,
           head : 0..MaxSel, newLength : 0..MaxSel] :
     x.anchor <= x.oldLength /\ x.head <= x.oldLength}

ClampSelection ==
  /\ arg.fn = "selection"
  /\ res = <<>>
  /\ res' = <<FullSyncSelection([anchor |-> arg.anchor, head |-> arg.head],
                                arg.newLength)>>
  /\ UNCHANGED <<arg, bvars, svars, pvars, evars, wvars, rvars>>

\* Below, doc is the document behind the session's handle as handle.doc()
\* reads it: its shape and, when it has a content field, its text.
\* Variant: the edit inserts without deleting.
applyLocalEdit_NoDelete(h, doc, position, deleteCount, insertText) ==
  IF h = Null \/ doc.shape # "full" \/ ~SpliceOK(doc.content, position, deleteCount)
    THEN [threw |-> TRUE, doc |-> doc]
    ELSE [threw |-> FALSE,
          doc |-> [doc EXCEPT !.content = Splice(@, position, 0, insertText)]]

\* Variant: without a handle the edit returns quietly.
applyLocalEdit_Silent(h, doc, position, deleteCount, insertText) ==
  IF h = Null THEN [threw |-> FALSE, doc |-> doc]
  ELSE IF doc.shape # "full" \/ ~SpliceOK(doc.content, position, deleteCount)
    THEN [threw |-> TRUE, doc |-> doc]
    ELSE [threw |-> FALSE,
          doc |-> [doc EXCEPT !.content = Splice(@, position, deleteCount, insertText)]]

\* AutomergeSync.applyLocalEdit: throws without a handle; otherwise
\* handle.change(d => Automerge.splice(d, ['content'], ...)), which throws
\* when there is no content to splice or the range is outside it.
applyLocalEdit(h, doc, position, deleteCount, insertText) ==
  IF h = Null \/ doc.shape # "full" \/ ~SpliceOK(doc.content, position, deleteCount)
    THEN [threw |-> TRUE, doc |-> doc]
    ELSE [threw |-> FALSE,
          doc |-> [doc EXCEPT !.content = Splice(@, position, deleteCount, insertText)]]

\* Variant: the content is returned without looking whether there is one.
getContent_Unchecked(h, doc) ==
  IF h = Null THEN <<>>
  ELSE doc.content

\* AutomergeSync.getContent: '' without a handle, a document or a content
\* field; the content as a string otherwise.
getContent(h, doc) ==
  IF h = Null THEN <<>>
  ELSE IF doc.shape # "full" THEN <<>>
  ELSE doc.content

\* applyLocalEdit on the session, here an insertion at position 0.  shape
\* is what the document behind the handle holds (a document this session
\* created has its content).  An edit that went through changes the
\* document, which notifies the closures on its handle.
ApplyLocalEdit ==
  /\ \E shape \in {x \in DocShapes : (handle = Null \/ handle \in created) => x = "full"} :
       LET e == applyLocalEdit(handle, [shape |-> shape, content |-> <<>>], 0, 0, <<"b">>)
       IN IF e.threw
            THEN SessionCommit(SR, "editThrew", handle, 0)
            ELSE SessionCommit(notify(SR, handle), "edit", handle,
                               notify(SR, handle).remote)
  /\ UNCHANGED <<known, created, calls, story>>

EditArgs ==
  [fn : {"edit"}, handle : {Null, 1}, shape : DocShapes, content : Texts,
   position : 0..MaxLen, deleteCount : 0..MaxLen, insertText : LocalInserts]

\* applyLocalEdit(position, deleteCount, insertText), then getContent().
EditAndRead ==
  /\ arg.fn = "edit"
  /\ res = <<>>
  /\ LET doc == [shape |-> arg.shape,
                 content |-> IF arg.shape = "full" THEN arg.content ELSE <<>>]
         e == applyLocalEdit(arg.handle, doc, arg.position, arg.deleteCount,
                             arg.insertText)
     IN res' = <<[threw |-> e.threw, read |-> getContent(arg.handle, e.doc)]>>
  /\ UNCHANGED <<arg, bvars, svars, pvars, evars, wvars, rvars>>

\* Patches a notification may carry: splices of the content with or without
\* a length and a value, a deletion, an assignment, and patches of the
\* metadata.
NotifiedPatches ==
  [action : {"splice"}, field : {"content"}, index : {0},
   length : {Undefined, 1}, value : {UndefinedText, <<"a">>}]
  \cup [action : {"del", "put"}, field : {"content"}, index : {0},
        length : {1}, value : {UndefinedText}]
  \cup [action : {"put", "splice"}, field : {"metadata"}, index : {0},
        length : {Undefined}, value : {<<"a">>}]

PatchLists == UNION {[1..n -> NotifiedPatches] : n \in 0..MaxPatches}

\* A change notification handed to _handleRemoteChange: the guard, the
\* editor text, what doc is (missing, without content, or with the content
\* "a"), and the patches.
NotifyArgs ==
  [fn : {"notify"}, guard : BOOLEAN, view : Texts, shape : DocShapes,
   patches : PatchLists]

\* _handleRemoteChange(doc, patches) alone: which way it took, how many
\* view.dispatch calls it made, the editor text it left.
HandleNotification ==
  /\ arg.fn = "notify"
  /\ res = <<>>
  /\ LET m == _handleRemoteChange(
                [M0 EXCEPT !.view = arg.view, !.guard = arg.guard],
                [hasContent |-> arg.shape = "full",
                 content |-> IF arg.shape = "full" THEN <<"a">> ELSE UndefinedText],
                arg.patches)
     IN res' = <<[route |-> m.route, dispatches |-> m.dispatches, view |-> m.view,
                  threw |-> m.threw]>>
  /\ UNCHANGED <<arg, bvars, svars, pvars, evars, wvars, rvars>>

\* A user update handed to applyLocalChange, editor and document in step
\* before it; failAt: the range whose handle.change is made to throw (0:
\* none).
ForwardArgs ==
  UNION {[fn : {"forward"}, content : {t}, ranges : UserRanges(t), failAt : 0..MaxRanges]
           : t \in Texts}

\* applyLocalChange(update) alone, the binding attached: whether it threw,
\* what it returned, the guard and the document it left, and the
\* handle.change calls that went through.
ForwardUpdate ==
  /\ arg.fn = "forward"
  /\ res = <<>>
  /\ LET m == applyLocalChange(
                [attach(M0) EXCEPT !.content = arg.content,
                                   !.view = ApplyChanges(arg.content, arg.ranges, 0)],
                UpdateOf(arg.ranges, FALSE), arg.failAt)
     IN res' = <<[threw |-> m.threw, returned |-> m.returned, guard |-> m.guard,
                  changeCalls |-> m.changeCalls, content |-> m.content,
                  dispatches |-> m.dispatches]>>
  /\ UNCHANGED <<arg, bvars, svars, pvars, evars, wvars, rvars>>

\* Variant: the update is skipped only when every transaction is tagged.
hasRemoteChange_Every(transactions) ==
  \A i \in 1..Len(transactions) : transactions[i]

\* update.transactions.some(tr => tr.annotation(isRemoteChange)), each
\* transaction given by whether it carries the annotation.
hasRemoteChange(transactions) ==
  \E i \in 1..Len(transactions) : transactions[i]

\* An update of one or two transactions: one is the user's and makes the
\* text changes ranges; the other, if any, changes no text and is tagged
\* or not.
BatchArgs ==
  UNION {[fn : {"batch"}, content : {t}, ranges : UserRanges(t),
          transactions : {<<FALSE>>, <<FALSE, FALSE>>, <<FALSE, TRUE>>, <<TRUE, FALSE>>}]
           : t \in Texts}

\* applyLocalChange alone on such an update, the binding attached, editor
\* and document in step before it.
ForwardBatch ==
  /\ arg.fn = "batch"
  /\ res = <<>>
  /\ LET view == ApplyChanges(arg.content, arg.ranges, 0)
         m == applyLocalChange(
                [attach(M0) EXCEPT !.content = arg.content, !.view = view],
                [UpdateOf(arg.ranges, FALSE) EXCEPT
                   !.remote = hasRemoteChange(arg.transactions)],
                0)
     IN res' = <<[threw |-> m.threw, returned |-> m.returned,
                  changeCalls |-> m.changeCalls, content |-> m.content,
                  view |-> m.view]>>
  /\ UNCHANGED <<arg, bvars, svars, pvars, evars, wvars, rvars>>

ReadArgs == [fn : {"read"}, handle : {Null, 1}, shape : DocShapes, content : Texts]

\* getContent() alone.  The content of a document that has none reads as
\* undefined.
ReadContent ==
  /\ arg.fn = "read"
  /\ res = <<>>
  /\ res' = <<getContent(arg.handle,
                         [shape |-> arg.shape,
                          content |-> IF arg.shape = "full" THEN arg.content
                                      ELSE UndefinedText])>>
  /\ UNCHANGED <<arg, bvars, svars, pvars, evars, wvars, rvars>>

FunctionArgs == PatchArgs \cup SelectionArgs \cup EditArgs \cup ReadArgs \cup NotifyArgs
    \cup ForwardArgs \cup BatchArgs

\* ------------------------------------------- two sessions on one document
\* Each session holds a copy of the document's text as Automerge keeps it:
\* one element per character ever inserted, named by the id of the
\* operation that inserted it (a counter and the actor) and placed after the
\* element ref; deleted elements stay, marked dead.
Peers == {"A", "B"}

OtherPeer(p) == IF p = "A" THEN "B" ELSE "A"

Hello == <<"h", "e", "l", "l", "o">>

World == <<"w", "o", "r", "l", "d">>

PeerWords == {Hello, World}

\* The place before the first character.
HeadId == <<0, "A">>

ElemId(e) == <<e.ctr, e.actor>>

\* Operation ids are ordered by counter, then by actor id.
IdLess(a, b) ==
  \/ a[1] < b[1]
  \/ a[1] = b[1] /\ a[2] # greater /\ b[2] = greater

Kids(ref, elems) == {e \in elems : e.ref = ref}

FirstKid(kids) == CHOOSE k \in kids : \A x \in kids \ {k} : IdLess(ElemId(x), ElemId(k))

\* The order of the elements: after an element come the elements inserted
\* after it, the one with the greatest id first, each followed by its own.
RECURSIVE Walk(_, _), WalkKids(_, _)
Walk(ref, elems) == WalkKids(Kids(ref, elems), elems)

WalkKids(kids, elems) ==
  IF kids = {} THEN <<>>
  ELSE LET k == FirstKid(kids)
       IN <<k>> \o Walk(ElemId(k), elems) \o WalkKids(kids \ {k}, elems)

IsLive(r, e) == ElemId(e) \notin r.dead

Visible(r) == SelectSeq(Walk(HeadId, r.elems), LAMBDA e : IsLive(r, e))

\* handle.doc() of a session: the text its copy shows.
DocOf(r) ==
  [shape |-> "full", content |-> [i \in 1..Len(Visible(r)) |-> Visible(r)[i].ch]]

\* Variant: the characters are inserted one at a time, each at position.
spliceOps_PerChar(r, actor, position, deleteCount, insertText) ==
  LET vis == Visible(r)
      base == r.maxOp + deleteCount
      ref0 == IF position = 0 THEN HeadId ELSE ElemId(vis[position])
  IN [elems |-> {[ctr |-> base + i, actor |-> actor, ref |-> ref0, ch |-> insertText[i]]
                   : i \in 1..Len(insertText)},
      dels |-> {ElemId(vis[i]) : i \in (position + 1)..(position + deleteCount)},
      maxOp |-> base + Len(insertText)]

\* The operations of one Automerge.splice(d, ['content'], position,
\* deleteCount, insertText) on copy r: deleteCount elements from position on
\* are marked dead; the first character goes after the element before
\* position, every further character after the one before it.
spliceOps(r, actor, position, deleteCount, insertText) ==
  LET vis == Visible(r)
      base == r.maxOp + deleteCount
      ref0 == IF position = 0 THEN HeadId ELSE ElemId(vis[position])
  IN [elems |-> {[ctr |-> base + i, actor |-> actor,
                  ref |-> IF i = 1 THEN ref0 ELSE <<base + i - 1, actor>>,
                  ch |-> insertText[i]]
                   : i \in 1..Len(insertText)},
      dels |-> {ElemId(vis[i]) : i \in (position + 1)..(position + deleteCount)},
      maxOp |-> base + Len(insertText)]

\* A copy once a change (made here or received) is part of it.
Merged(r, ch) ==
  [elems |-> r.elems \cup ch.elems, dead |-> r.dead \cup ch.dels,
   maxOp |-> IF ch.maxOp > r.maxOp THEN ch.maxOp ELSE r.maxOp]

\* Session p applies an edit at the start or at the end of its text; one the
\* engine would reject changes nothing.  saw: how many changes of the other
\* session p had merged when it made the edit.
PeerEdit(p) ==
  /\ Len(sent[p]) < MaxPeerEdits
  /\ \E position \in {0, Len(DocOf(replica[p]).content)}, deleteCount \in {0, 1},
        insertText \in PeerWords :
       /\ ~applyLocalEdit(1, DocOf(replica[p]), position, deleteCount, insertText).threw
       /\ LET ch == spliceOps(replica[p], p, position, deleteCount, insertText)
          IN /\ replica' = [replica EXCEPT ![p] = Merged(@, ch)]
             /\ sent' = [sent EXCEPT ![p] = Append(@,
                           [elems |-> ch.elems, dels |-> ch.dels, maxOp |-> ch.maxOp,
                            saw |-> seen[p], position |-> position,
                            deleteCount |-> deleteCount, insertText |-> insertText])]
  /\ UNCHANGED <<greater, seen, bvars, svars, fvars, evars, wvars, rvars>>

\* The next change of the other session reaches p and is merged.
PeerReceive(p) ==
  /\ seen[p] < Len(sent[OtherPeer(p)])
  /\ replica' = [replica EXCEPT ![p] = Merged(@, sent[OtherPeer(p)][seen[p] + 1])]
  /\ seen' = [seen EXCEPT ![p] = @ + 1]
  /\ UNCHANGED <<greater, sent, bvars, svars, fvars, evars, wvars, rvars>>

\* Both sessions have the document open, its content "" as createDocument
\* left it.
PeersStart ==
  /\ greater \in Peers
  /\ replica = [p \in Peers |-> [elems |-> {}, dead |-> {}, maxOp |-> 0]]
  /\ sent = [p \in Peers |-> <<>>]
  /\ seen = [p \in Peers |-> 0]

\* --------------------------------------------- the session's EventEmitter
\* The event the listeners are registered for.
Events == {"document-ready"}

Callbacks == 1..NumCallbacks

\* What a callback does when called: it may throw, and it may first remove
\* a callback (itself or another) from the event (removes = 0: none).
Behaviours == [throws : BOOLEAN, removes : 0..NumCallbacks]

Without(ls, cb) == SelectSeq(ls, LAMBDA x : x # cb)

IndexOf(ls, cb) == IF \E i \in 1..Len(ls) : ls[i] = cb
                     THEN CHOOSE i \in 1..Len(ls) : ls[i] = cb
                     ELSE 0

\* on(event, callback), ls the Set of the event: a Set holds a callback once.
on(ls, cb) == IF IndexOf(ls, cb) > 0 THEN ls ELSE Append(ls, cb)

\* off(event, callback)
off(ls, cb) == Without(ls, cb)

\* Variant: a throwing callback ends the loop and the exception leaves emit.
RECURSIVE forEach_NoCatch(_, _, _)
forEach_NoCatch(run, i, acts) ==
  IF i > Len(run.ls) THEN run
  ELSE LET cb == run.ls[i]
           gone == IndexOf(run.ls, acts[cb].removes)
           r1 == [run EXCEPT !.called = Append(@, cb),
                             !.ls = off(@, acts[cb].removes)]
       IN IF acts[cb].throws THEN [r1 EXCEPT !.propagated = TRUE]
          ELSE forEach_NoCatch(r1, IF gone > 0 /\ gone <= i THEN i ELSE i + 1, acts)

\* listeners.forEach(callback => { try { callback(data) } catch (e) {...} })
\* from the i-th callback on.  Set.forEach walks the live Set: a callback
\* removed before its turn is not visited.
RECURSIVE forEach(_, _, _)
forEach(run, i, acts) ==
  IF i > Len(run.ls) THEN run
  ELSE LET cb == run.ls[i]
           gone == IndexOf(run.ls, acts[cb].removes)
           r1 == [run EXCEPT !.called = Append(@, cb),
                             !.ls = off(@, acts[cb].removes)]
       IN forEach(r1, IF gone > 0 /\ gone <= i THEN i ELSE i + 1, acts)

NoActs == [cb \in Callbacks |-> [throws |-> FALSE, removes |-> 0]]

EmitterCommit(ls, op, event, cb, called, propagated, acts) ==
  /\ _listeners' = [_listeners EXCEPT ![event] = ls]
  /\ elast' = [op |-> op, event |-> event, cb |-> cb, before |-> _listeners[event],
               called |-> called, propagated |-> propagated, acts |-> acts]
  /\ UNCHANGED <<bvars, svars, fvars, pvars, wvars, rvars>>

On(event, cb) ==
  /\ EmitterCommit(on(_listeners[event], cb), "on", event, cb, <<>>, FALSE, NoActs)
  /\ unsubscribers' = unsubscribers \cup {<<event, cb>>}

Off(event, cb) ==
  /\ EmitterCommit(off(_listeners[event], cb), "off", event, cb, <<>>, FALSE, NoActs)
  /\ UNCHANGED unsubscribers

\* A function on() returned is called: () => this.off(event, callback).
Unsubscribe(event, cb) ==
  /\ <<event, cb>> \in unsubscribers
  /\ EmitterCommit(off(_listeners[event], cb), "unsubscribe", event, cb, <<>>, FALSE,
                   NoActs)
  /\ UNCHANGED unsubscribers

\* emit(event, data); acts: what each callback does if it is called (a
\* callback that is not called is given no behaviour, and only registered
\* callbacks are removed).
Emit(event) ==
  /\ \E acts \in [Callbacks -> Behaviours] :
       LET run == forEach([ls |-> _listeners[event], called |-> <<>>,
                           propagated |-> FALSE], 1, acts)
       IN /\ \A cb \in Callbacks :
               /\ IndexOf(run.called, cb) = 0 => acts[cb] = NoActs[cb]
               /\ acts[cb].removes # 0 => IndexOf(_listeners[event], acts[cb].removes) > 0
          /\ EmitterCommit(run.ls, "emit", event, 0, run.called, run.propagated, acts)
  /\ UNCHANGED unsubscribers

EmitterStart ==
  /\ _listeners = [e \in Events |-> <<>>]
  /\ unsubscribers = {}
  /\ elast = [op |-> "init", event |-> "none", cb |-> 0, before |-> <<>>,
              called |-> <<>>, propagated |-> FALSE, acts |-> NoActs]

\* ------------------------------------------------ waitForDocumentReady
WaitIds == 1..NumWaits

\* A call that has not been made: no promise, no timer, no listener.
IdleWait ==
  [pc |-> "idle", timer |-> FALSE, listening |-> FALSE, settleCalls |-> 0]

\* resolve(doc) / reject(error): a promise settles once; later calls of
\* resolve or reject change nothing.  settleCalls counts the calls made.
Settle(w, outcome) ==
  [w EXCEPT !.pc = IF @ = "pending" THEN outcome ELSE @,
            !.settleCalls = @ + 1]

\* clearTimeout(timeout); handle.off('change', onReady); resolve(doc)
Ready(w) ==
  Settle([w EXCEPT !.timer = FALSE, !.listening = FALSE], "resolved")

\* waitForDocumentReady(handle, timeoutMs): the executor of the promise.  It
\* arms the timer, registers onReady, and looks at handle.doc(), which may
\* throw while the handle is not ready.
WaitCall(c) ==
  /\ waits[c].pc = "idle"
  /\ LET w == [pc |-> "pending", timer |-> TRUE, listening |-> TRUE,
               settleCalls |-> 0]
     IN waits' = [waits EXCEPT ![c] = IF hdoc = "defined" THEN Ready(w) ELSE w]
  /\ UNCHANGED <<hdoc, bvars, svars, fvars, pvars, evars, rvars>>

\* The handle emits 'change' with a doc that is defined or not (a doc, once
\* defined, stays defined): onReady of every call still listening runs.
WaitChange(defined) ==
  /\ hdoc = "defined" => defined
  /\ hdoc' = IF defined THEN "defined" ELSE "undefined"
  /\ waits' = [c \in WaitIds |->
                 IF waits[c].listening /\ defined THEN Ready(waits[c]) ELSE waits[c]]
  /\ UNCHANGED <<bvars, svars, fvars, pvars, evars, rvars>>

\* The timer of a call fires: reject(new Error('Timeout ...')).
WaitTimeout(c) ==
  /\ waits[c].timer
  /\ waits' = [waits EXCEPT ![c] = Settle([@ EXCEPT !.timer = FALSE], "rejected")]
  /\ UNCHANGED <<hdoc, bvars, svars, fvars, pvars, evars, rvars>>

\* No call made; the handle is not ready (doc() throws) or has no doc yet,
\* or has one.
WaitStart ==
  /\ waits = [c \in WaitIds |-> IdleWait]
  /\ hdoc \in {"throws", "undefined", "defined"}

WaitIdle ==
  /\ waits = <<>>
  /\ hdoc = "undefined"

\* --------------------------------------- recent-documents registry
\* Document ids offered to the registry; NoId is a falsy docId ('' or null).
RegIds == 1..NumRegIds

NoId == 0

\* Titles a caller passes; "" is a falsy title.
Titles == {"", "notes"}

Untitled == "Untitled Document"

\* Date.now()
Times == 0..MaxTime

\* docs.slice(0, limit)
slice(docs, limit) == SubSeq(docs, 1, Min(limit, Len(docs)))

\* Array.prototype.sort with (a, b) => b.lastOpened - a.lastOpened: a stable
\* sort, latest lastOpened first.
RECURSIVE sortByLastOpened(_)
sortByLastOpened(docs) ==
  IF docs = <<>> THEN <<>>
  ELSE LET e == docs[Len(docs)]
           rest == sortByLastOpened(SubSeq(docs, 1, Len(docs) - 1))
           n == Cardinality({i \in 1..Len(rest) : rest[i].lastOpened >= e.lastOpened})
       IN SubSeq(rest, 1, n) \o <<e>> \o SubSeq(rest, n + 1, Len(rest))

\* docs.findIndex(d => d.id === docId), counted from 1; 0 when there is none.
findIndex(docs, docId) ==
  LET hits == {i \in 1..Len(docs) : docs[i].id = docId}
  IN IF hits = {} THEN 0 ELSE CHOOSE i \in hits : \A j \in hits : i <= j

\* getRecentDocuments(limit): [] when the key is not set, else the stored
\* list (JSON keeps ids, titles and integer timestamps as they are), sorted
\* and cut to limit.
getRecentDocuments(st, limit) ==
  IF ~st.set THEN <<>> ELSE slice(sortByLastOpened(st.docs), limit)

\* localStorage.setItem(STORAGE_KEY, JSON.stringify(docs))
setItem(docs) == [set |-> TRUE, docs |-> docs]

\* Variant: addDocument stores the list without trimming it.
addDocument_NoTrim(st, docId, title, now) ==
  IF docId = NoId THEN st
  ELSE LET docs == getRecentDocuments(st, MAX_DOCUMENTS)
           existingIndex == findIndex(docs, docId)
           docEntry == [id |-> docId,
                        title |-> IF title = "" THEN Untitled ELSE title,
                        lastOpened |-> now]
       IN setItem(IF existingIndex > 0
                    THEN [docs EXCEPT ![existingIndex] = docEntry]
                    ELSE <<docEntry>> \o docs)

\* addDocument(docId, title) at time now: replaces the entry of docId in
\* place or puts a new entry first, and keeps the first MAX_DOCUMENTS.
addDocument(st, docId, title, now) ==
  IF docId = NoId THEN st
  ELSE LET docs == getRecentDocuments(st, MAX_DOCUMENTS)
           existingIndex == findIndex(docs, docId)
           docEntry == [id |-> docId,
                        title |-> IF title = "" THEN Untitled ELSE title,
                        lastOpened |-> now]
           updated == IF existingIndex > 0
                        THEN [docs EXCEPT ![existingIndex] = docEntry]
                        ELSE <<docEntry>> \o docs
       IN setItem(slice(updated, MAX_DOCUMENTS))

\* removeDocument(docId)
removeDocument(st, docId) ==
  IF docId = NoId THEN st
  ELSE LET docs == getRecentDocuments(st, MAX_DOCUMENTS)
       IN setItem(SelectSeq(docs, LAMBDA d : d.id # docId))

\* updateTitle(docId, newTitle): writes only when docId has an entry.
updateTitle(st, docId, newTitle) ==
  IF docId = NoId THEN st
  ELSE LET docs == getRecentDocuments(st, MAX_DOCUMENTS)
           i == findIndex(docs, docId)
       IN IF i > 0
            THEN setItem([docs EXCEPT ![i].title =
                            IF newTitle = "" THEN Untitled ELSE newTitle])
            ELSE st

\* What a call found: how many entries the list it read had, and whether
\* docId was among them.
Found(op, docId) ==
  LET docs == getRecentDocuments(recentDocuments, MAX_DOCUMENTS)
  IN [op |-> op, id |-> docId, had |-> Len(docs),
      found |-> findIndex(docs, docId) > 0]

AddDocument ==
  \E docId \in RegIds \cup {NoId}, title \in Titles, now \in Times :
    /\ recentDocuments' = addDocument(recentDocuments, docId, title, now)
    /\ rlast' = Found("add", docId)
    /\ UNCHANGED <<bvars, svars, fvars, pvars, evars, wvars>>

RemoveDocument ==
  \E docId \in RegIds \cup {NoId} :
    /\ recentDocuments' = removeDocument(recentDocuments, docId)
    /\ rlast' = Found("remove", docId)
    /\ UNCHANGED <<bvars, svars, fvars, pvars, evars, wvars>>

UpdateTitle ==
  \E docId \in RegIds \cup {NoId}, newTitle \in Titles :
    /\ recentDocuments' = updateTitle(recentDocuments, docId, newTitle)
    /\ rlast' = Found("title", docId)
    /\ UNCHANGED <<bvars, svars, fvars, pvars, evars, wvars>>

\* A browser that has never stored the key.
RegistryIdle ==
  /\ recentDocuments = [set |-> FALSE, docs |-> <<>>]
  /\ rlast = [op |-> "init", id |-> NoId, had |-> 0, found |-> FALSE]

\* ------------------------------------------------- specifications
\* No second session is looked at.
PeersIdle ==
  /\ greater = "A"
  /\ replica = <<>>
  /\ sent = <<>>
  /\ seen = <<>>

\* No function is examined on its own.
FunctionsIdle == arg = <<>> /\ res = <<>>

\* The binding of one editor to one document handle.
Init ==
  /\ BindingStart /\ SessionStart /\ FunctionsIdle /\ PeersIdle /\ EmitterStart
  /\ WaitIdle /\ RegistryIdle

Next ==
  \/ SetupEditor
  \/ LocalEdit
  \/ SelectionUpdate
  \/ RemoteChange
  \/ RemoteMetadataChange
  \/ Acknowledge
  \/ Attach
  \/ Detach

Spec == Init /\ [][Next]_vars

\* The document session.
InitSession ==
  /\ BindingStart /\ content = <<>> /\ SessionStart /\ FunctionsIdle /\ PeersIdle
  /\ EmitterStart /\ WaitIdle /\ RegistryIdle

NextSession ==
  \/ Connect
  \/ Disconnect
  \/ CreateDocument
  \/ CloseDocument
  \/ \E c \in CallIds : OpenDocument(c)
  \/ \E c \in CallIds : FindResolve(c)
  \/ \E c \in CallIds : FindReject(c)
  \/ \E c \in CallIds : WhenReadyResolve(c)
  \/ \E c \in CallIds : WhenReadyReject(c)
  \/ \E d \in Docs : Mutate(d)
  \/ ApplyLocalEdit

SpecSession == InitSession /\ [][NextSession]_vars

\* The session with the progress its backend owes it: repo.find answers
\* every request (it resolves or rejects).  Nothing makes a handle ready:
\* whenReady() of a document no peer serves stays pending, and openDocument
\* starts no timer of its own.
SessionFairness == WF_vars(\E c \in CallIds : FindResolve(c) \/ FindReject(c))

SpecSessionLive == InitSession /\ [][NextSession]_vars /\ SessionFairness

\* The functions of the binding, each applied once to an argument.
InitFunctions ==
  /\ BindingStart /\ content = <<>> /\ SessionStart /\ PeersIdle /\ EmitterStart
  /\ WaitIdle /\ RegistryIdle
  /\ arg \in FunctionArgs /\ res = <<>>

NextFunctions ==
  \/ TranslatePatch
  \/ ClampSelection
  \/ EditAndRead
  \/ ReadContent
  \/ HandleNotification
  \/ ForwardUpdate
  \/ ForwardBatch

SpecFunctions == InitFunctions /\ [][NextFunctions]_vars

\* Two sessions editing one document.
InitPeers ==
  /\ BindingStart /\ content = <<>> /\ SessionStart /\ FunctionsIdle /\ PeersStart
  /\ EmitterStart /\ WaitIdle /\ RegistryIdle

NextPeers ==
  \/ \E p \in Peers : PeerEdit(p)
  \/ \E p \in Peers : PeerReceive(p)

SpecPeers == InitPeers /\ [][NextPeers]_vars

\* The event emitter the session extends.
InitEmitter ==
  /\ BindingStart /\ content = <<>> /\ SessionStart /\ FunctionsIdle /\ PeersIdle
  /\ EmitterStart /\ WaitIdle /\ RegistryIdle

NextEmitter ==
  \/ \E event \in Events, cb \in Callbacks : On(event, cb)
  \/ \E event \in Events, cb \in Callbacks : Off(event, cb)
  \/ \E event \in Events, cb \in Callbacks : Unsubscribe(event, cb)
  \/ \E event \in Events : Emit(event)

SpecEmitter == InitEmitter /\ [][NextEmitter]_vars

\* waitForDocumentReady calls on one handle.
InitWait ==
  /\ BindingStart /\ content = <<>> /\ SessionStart /\ FunctionsIdle /\ PeersIdle
  /\ EmitterStart /\ WaitStart /\ RegistryIdle

NextWait ==
  \/ \E c \in WaitIds : WaitCall(c)
  \/ \E defined \in BOOLEAN : WaitChange(defined)
  \/ \E c \in WaitIds : WaitTimeout(c)

SpecWait == InitWait /\ [][NextWait]_vars

InitRegistry ==
  /\ BindingStart /\ content = <<>> /\ SessionStart /\ FunctionsIdle /\ PeersIdle
  /\ EmitterStart /\ WaitIdle /\ RegistryIdle

NextRegistry ==
  \/ AddDocument
  \/ RemoveDocument
  \/ UpdateTitle

SpecRegistry == InitRegistry /\ [][NextRegistry]_vars

\* ===================================================== claims: binding

\* C1: echo suppression.  In a local edit every change notification that
\* fires inside applyLocalChange (one per forwarded range and registered
\* handler) is discarded by the guard, and no view.dispatch is made.
C1_EchoSuppressed ==
  last.op = "local" =>
    /\ last.notified = last.changeCalls * registered
    /\ last.echoSkips = last.notified
    /\ last.dispatches = 0

C1_Witness ==
  last.op = "local" /\ last.changeCalls = 2 /\ last.echoSkips = 2

\* C2: convergence after a remote change.  If the editor text equalled the
\* content before the mutation and the attached binding handled its change
\* notification, the editor text equals the content afterwards.
C2_RemoteConverges ==
  (last.op = "remote" /\ last.synced /\ last.notified > 0) => viewText = content

\* C3: multi-range local edit.  If the editor text equalled the content and
\* applyLocalChange forwarded every range of the update, the content equals
\* the editor's text after the update.
C3_MultiRangeCorrect ==
  (last.op = "local" /\ last.synced /\ ~last.threw
     /\ last.changeCalls = last.ranges)
    => content = viewText

\* C4: the guard is false whenever no applyLocalChange is running, also
\* after handle.change threw; no later remote notification is taken for an
\* echo.
C4_GuardCleared ==
  /\ _isSyncingLocalChange = FALSE
  /\ (last.op \in {"remote", "metadata"} => last.echoSkips = 0)

C4_Witness ==
  last.op = "local" /\ last.threw /\ last.changeCalls = 1 /\ last.ranges = 2

\* C5: a remote change notification delivered after applyLocalChange has
\* returned, the local change still unacknowledged, is not discarded as an
\* echo: it takes the patch path or the full-sync path.
C5_RemoteNotEcho ==
  (last.op = "remote" /\ last.wasPending /\ last.notified > 0) =>
    /\ last.echoSkips = 0
    /\ last.route \in {"patch", "fullsync"}

C5_Witness ==
  /\ last.op = "remote" /\ last.wasPending
  /\ last.route = "patch" /\ last.dispatches = 1 /\ ~last.threw

\* C6: no feedback loop.  Every view.dispatch of the binding carries the
\* isRemoteChange annotation, and the update the editor reports for it makes
\* applyLocalChange call handle.change zero times.
C6_NoFeedback ==
  last.allTagged /\ last.feedback = 0

C6_Witness ==
  /\ last.op = "remote" /\ last.route = "fullsync" /\ last.dispatches = 1
  /\ last.changeCalls = 0 /\ content = viewText

\* ===================================================== claims: session

\* C7: createDocument() then a successful openDocument(x), x another
\* document: x is the active document, the session's closure is off the
\* first document's handle, and a mutation of the first document emits no
\* 'remote-change'.
C7_CreateThenOpen ==
  (story.kind = "createOpen" /\ calls[Latest].pc = "resolved")
    => /\ handle = calls[Latest].doc
       /\ _documentId = calls[Latest].doc
       /\ sync_changeHandler = calls[Latest].doc
       /\ listeners[calls[Latest].doc] >= 1
       /\ listeners[story.first] = 0
       /\ (slast.op = "mutate" /\ slast.doc = story.first => slast.remoteChanges = 0)

C7_Witness ==
  /\ story.kind = "createOpen" /\ calls[Latest].pc = "resolved"
  /\ slast.op = "mutate" /\ slast.doc = story.first

\* C8: at most one open document per session.  The session's closures are
\* registered on at most one handle, and that is the handle getHandle()
\* returns.
C8_AtMostOneOpen ==
  /\ Cardinality({d \in Docs : listeners[d] > 0}) <= 1
  /\ \A d \in Docs : listeners[d] > 0 => handle = d

\* C9: second open wins.  openDocument(a), then openDocument(b) while the
\* first is pending, no other operation: once both have resolved the active
\* document is b and only b's handle carries the subscription.
C9_SecondOpenWins ==
  (/\ story.kind = "openOpen"
   /\ calls[Latest].pc = "resolved" /\ calls[Latest - 1].pc = "resolved")
    => /\ handle = calls[Latest].doc
       /\ _documentId = calls[Latest].doc
       /\ \A d \in Docs : listeners[d] > 0 => d = calls[Latest].doc

\* C10: after an openDocument call has rejected in its try block, no other
\* operation having run, the session has no handle, no document id, no
\* closure on any handle, and the call emitted no 'document-ready'.
C10_RejectedOpenInert ==
  (/\ story.kind = "open" /\ calls[Latest].pc = "rejected"
   /\ calls[Latest].cause \in {"find", "whenReady", "noDoc"})
    => /\ handle = Null
       /\ _documentId = Null
       /\ \A d \in Docs : listeners[d] = 0
       /\ ~calls[Latest].ready

\* C11: every failure of openDocument after the connection check is
\* surfaced twice.  Whenever a call leaves its awaits it has resolved or
\* rejected, and the step that rejects it emits exactly one 'error' event
\* (and nothing else) before the rejection.
C11_ErrorSurfaced ==
  [][\A c \in CallIds :
       (calls[c].pc \in {"find", "whenReady"} /\ calls'[c].pc \notin {"find", "whenReady"})
         => /\ calls'[c].pc \in {"resolved", "rejected"}
            /\ (calls'[c].pc = "rejected"
                  => /\ slast'.op = "openRejected"
                     /\ slast'.doc = calls[c].doc
                     /\ slast'.out = <<"error">>)]_vars

C11_Witness ==
  /\ slast.op = "openRejected" /\ slast.out = <<"error">>
  /\ \E c \in CallIds : calls[c].pc = "rejected" /\ calls[c].cause = "whenReady"

\* C12: an openDocument call whose handle holds a document without a
\* content field rejects and emits no 'document-ready'.
C12_NoContentRejected ==
  \A c \in CallIds :
    calls[c].loaded = "noContent" => calls[c].pc = "rejected" /\ ~calls[c].ready

\* C13: openDocument always settles.  Every call that is waiting for
\* repo.find or whenReady eventually resolves or rejects.
C13_OpenSettles ==
  \A c \in CallIds :
    (calls[c].pc \in {"find", "whenReady"}) ~> (calls[c].pc \in {"resolved", "rejected"})

\* C14: patch translation.  For a splice patch on the content at index i
\* with length d (absent: 0) and value s (absent: empty), the edit
\* _handleRemoteChange derives is exactly {from: i, to: i + d, insert: s}.
C14_PatchTranslation ==
  (arg.fn = "patch" /\ Len(res) = 1
     /\ arg.patch.field = "content" /\ arg.patch.action = "splice")
    => res[1] =
         <<[from |-> arg.patch.index,
            to |-> arg.patch.index
                     + (IF arg.patch.length = Undefined THEN 0 ELSE arg.patch.length),
            insert |-> IF arg.patch.value = UndefinedText THEN <<>> ELSE arg.patch.value]>>

C14_Witness ==
  /\ arg.fn = "patch" /\ Len(res) = 1
  /\ arg.patch.field = "content" /\ arg.patch.action = "splice"
  /\ arg.patch.index = 1 /\ arg.patch.length = 2 /\ arg.patch.value = <<>>
  /\ res[1] = <<[from |-> 1, to |-> 3, insert |-> <<>>]>>

\* C15: a change notification whose patches all concern the metadata makes
\* the binding dispatch nothing to the editor, whatever the editor text and
\* the document content are.
C15_MetadataIgnored ==
  last.op = "metadata" => last.dispatches = 0

\* C16: fallback full sync.  When the binding handles a notification by the
\* full-sync path it dispatches exactly one remote-tagged edit if the
\* content differs from the editor text and none if they are equal, and the
\* editor text equals the content afterwards.
C16_FullSync ==
  [][(last'.op = "remote" /\ last'.route = "fullsync" /\ last'.notified = 1)
       => /\ last'.dispatches = (IF viewText # content' THEN 1 ELSE 0)
          /\ last'.allTagged
          /\ ~last'.threw
          /\ viewText' = content']_vars

C16_Witness ==
  /\ last.op = "remote" /\ last.route = "fullsync" /\ last.notified = 1
  /\ last.dispatches = 1 /\ ~last.synced /\ Len(content) = 2 /\ viewText = content

\* C17: fallback selection clamping.  For every old text, selection within
\* it and new text, the selection of the full-sync dispatch is
\* (min(anchor, len(newText)), min(head, len(newText))), both ends within
\* [0, len(newText)].
C17_SelectionClamped ==
  (arg.fn = "selection" /\ Len(res) = 1)
    => /\ res[1].anchor = (IF arg.anchor <= arg.newLength THEN arg.anchor ELSE arg.newLength)
       /\ res[1].head = (IF arg.head <= arg.newLength THEN arg.head ELSE arg.newLength)
       /\ res[1].anchor \in 0..arg.newLength
       /\ res[1].head \in 0..arg.newLength

C17_Witness ==
  /\ arg.fn = "selection" /\ Len(res) = 1
  /\ arg.oldLength = 10 /\ arg.anchor = 8 /\ arg.head = 10 /\ arg.newLength = 5
  /\ res[1] = [anchor |-> 5, head |-> 5]

C19_AttachDetach ==
  /\ registered = (IF _attached THEN 1 ELSE 0)
  /\ _changeHandler = _attached
  /\ (last.op \in {"attach", "detach"} => ~last.threw /\ last.dispatches = 0)
  /\ (last.op = "attach" => _attached)
  /\ (last.op = "detach" => ~_attached)
  /\ (~_attached /\ last.op \in {"remote", "metadata"}
        => last.notified = 0 /\ last.dispatches = 0)

C19_Witness ==
  /\ bound /\ ~_attached /\ registered = 0
  /\ last.op = "remote" /\ last.notified = 0 /\ viewText # content

\* C20: round-trip fidelity.  With an active document of content C,
\* applyLocalEdit(p, d, s) with p + d <= len(C) followed by getContent()
\* returns C[0:p] + s + C[p+d:].
C20_RoundTrip ==
  (/\ arg.fn = "edit" /\ Len(res) = 1
   /\ arg.handle # Null /\ arg.shape = "full"
   /\ arg.position + arg.deleteCount <= Len(arg.content))
    => /\ ~res[1].threw
       /\ res[1].read =
            SubSeq(arg.content, 1, arg.position) \o arg.insertText
              \o SubSeq(arg.content, arg.position + arg.deleteCount + 1, Len(arg.content))

C20_Witness ==
  /\ arg.fn = "edit" /\ Len(res) = 1 /\ arg.handle # Null /\ arg.shape = "full"
  /\ arg.content = <<"a", "b", "a">> /\ arg.position = 1 /\ arg.deleteCount = 1
  /\ arg.insertText = <<"b">> /\ res[1].read = <<"a", "b", "a">> /\ ~res[1].threw

C22_OfflineEditAccepted ==
  [][(/\ slast.op = "disconnect" /\ slast.doc # Null
      /\ slast'.op \in {"edit", "editThrew"})
       => slast'.op = "edit"]_vars

\* C23: while a document is active, each change of it makes the session
\* emit exactly one 'remote-change': none dropped, none duplicated.
C23_OneRemoteChangePerChange ==
  (/\ slast.op \in {"mutate", "edit"}
   /\ handle # Null /\ _documentId = handle /\ slast.doc = handle)
    => slast.remoteChanges = 1

\* C24: createDocument() and openDocument(id) on a session that
\* is not connected fail and leave it unchanged, with no handle, no document
\* id and no event.
C24_NotConnectedNoHandle ==
  [][(~repo /\ slast'.op \in {"create", "createThrew", "open", "openThrew"})
       => /\ slast'.op \in {"createThrew", "openThrew"}
          /\ UNCHANGED <<repo, _isConnected, handle, _documentId, sync_changeHandler,
                         listeners, known, created>>
          /\ slast'.out = <<>> /\ slast'.remoteChanges = 0
          /\ handle' = Null /\ _documentId' = Null]_vars

\* C25: createDocument() on a connected session makes the new document
\* active with content "" and metadata.version 1, emits exactly one
\* 'document-ready' (isNew true, the new handle), emits no 'remote-change'
\* for the initialisation, and returns the id getDocumentId() returns.
C25_CreateDocument ==
  slast.op = "create"
    => /\ handle = slast.doc /\ _documentId = handle /\ sync_changeHandler = handle
       /\ slast.out = <<"document-ready">>
       /\ Len(slast.ready) = 1
       /\ slast.ready[1].isNew
       /\ slast.ready[1].handle = handle
       /\ slast.ready[1].doc.shape = "full"
       /\ slast.ready[1].doc.content = <<>>
       /\ slast.ready[1].doc.metadata.version = 1
       /\ slast.remoteChanges = 0
       /\ slast.ret = _documentId /\ slast.ret # Null

C25_Witness ==
  /\ slast.op = "create" /\ slast.ret = 2 /\ handle = 2 /\ listeners[2] = 1
  /\ slast.remoteChanges = 0

\* C26: applyLocalEdit with no active document throws and mutates nothing:
\* no handle.change (no closure is notified), no event, no field changed.
C26_EditWithoutDocument ==
  [][(handle = Null /\ slast'.op \in {"edit", "editThrew"})
       => /\ slast'.op = "editThrew"
          /\ slast'.out = <<>> /\ slast'.remoteChanges = 0
          /\ UNCHANGED <<repo, _isConnected, handle, _documentId, sync_changeHandler,
                         listeners, known, created, calls>>]_vars

C26_Witness ==
  /\ slast.op = "editThrew" /\ handle = Null /\ ~repo /\ created # {}

\* C27: closeDocument is idempotent.  Closing an active document removes
\* the session's change handler from its handle, sets handle and id to null
\* and emits exactly one 'document-closed'; closeDocument() with no document
\* changes nothing and emits nothing; and no document stops being the active
\* one without its 'document-closed'.
C27_CloseIdempotent ==
  [][/\ (slast'.op = "close" /\ handle # Null)
          => /\ slast'.out = <<"document-closed">>
             /\ handle' = Null /\ _documentId' = Null /\ sync_changeHandler' = Null
             /\ listeners'[handle] = 0
     /\ (slast'.op = "close" /\ handle = Null)
          => /\ slast'.out = <<>>
             /\ UNCHANGED <<repo, _isConnected, handle, _documentId, sync_changeHandler,
                            listeners, known, created, calls>>
     /\ (handle # Null /\ _documentId = handle /\ handle' # handle)
          => "document-closed" \in {slast'.out[i] : i \in 1..Len(slast'.out)}]_vars

\* C28: disconnect() with an active document emits 'document-closed' and
\* then 'disconnected'; after it there is no active document and
\* isConnected() is false; createDocument and openDocument fail until
\* connect() is called again; that connect() succeeds and emits 'connected'.
C28_Disconnect ==
  [][/\ slast'.op = "disconnect"
          => /\ slast'.out = IF handle # Null THEN <<"document-closed", "disconnected">>
                             ELSE <<"disconnected">>
             /\ handle' = Null /\ _documentId' = Null /\ sync_changeHandler' = Null
             /\ ~_isConnected' /\ ~repo'
     /\ (~repo /\ slast'.op \in {"create", "createThrew", "open", "openThrew"})
          => slast'.op \in {"createThrew", "openThrew"}
     /\ (~repo /\ repo') => slast'.op = "connect"
     /\ (~repo /\ slast'.op = "connect")
          => repo' /\ _isConnected' /\ slast'.out = <<"connected">>]_vars

C28_Witness ==
  /\ slast.op = "disconnect" /\ slast.doc # Null
  /\ slast.out = <<"document-closed", "disconnected">>
  /\ handle = Null /\ ~_isConnected

\* C29: connect() on a session that is already connected is a no-op: no
\* second repository, the active document and its subscription untouched,
\* no further 'connected' event.
C29_ConnectNoOp ==
  [][(repo /\ slast'.op = "connect")
       => /\ slast'.built = 0 /\ slast'.out = <<>> /\ slast'.remoteChanges = 0
          /\ UNCHANGED <<repo, _isConnected, handle, _documentId, sync_changeHandler,
                         listeners, known, created, calls>>]_vars

C29_Witness ==
  /\ slast.op = "connect" /\ slast.out = <<>> /\ slast.built = 0
  /\ repo /\ handle # Null /\ _documentId = handle /\ listeners[handle] = 1

\* C30: connect() while the sync server cannot be reached leaves the
\* session disconnected: isConnected() is false and no 'connected' event is
\* emitted.
C30_ConnectOffline ==
  [][(~repo /\ slast'.op = "connect" /\ slast'.offline)
       => ~_isConnected' /\ slast'.out = <<>>]_vars

\* C31: getContent() returns "" whenever no document is active and whenever
\* the active document has no content field; otherwise it returns the
\* document's current text.
C31_GetContent ==
  (arg.fn = "read" /\ Len(res) = 1)
    => res[1] = IF arg.handle = Null \/ arg.shape # "full" THEN <<>> ELSE arg.content

C31_Witness ==
  /\ arg.fn = "read" /\ Len(res) = 1
  /\ arg.handle # Null /\ arg.shape = "noContent" /\ res[1] = <<>>

\* C32: a non-echo change notification whose doc is missing or whose
\* doc.content is undefined is discarded: no view.dispatch call, the editor
\* text as it was, whatever the patches are.
C32_UndefinedDiscarded ==
  (arg.fn = "notify" /\ Len(res) = 1 /\ ~arg.guard /\ arg.shape # "full")
    => /\ res[1].dispatches = 0
       /\ res[1].view = arg.view
       /\ ~res[1].threw
       /\ res[1].route = "undefined"

C32_Witness ==
  /\ arg.fn = "notify" /\ Len(res) = 1 /\ ~arg.guard /\ arg.shape = "noContent"
  /\ arg.view = <<"b">>
  /\ arg.patches = <<[action |-> "splice", field |-> "content", index |-> 0,
                      length |-> 1, value |-> <<"a">>]>>
  /\ res[1].dispatches = 0 /\ res[1].view = <<"b">>

\* C33: if handle.change throws while applyLocalChange is forwarding range j
\* of an update, the ranges after j are not forwarded, the ranges before j
\* stay applied, the exception reaches the caller (no return value, no
\* retry), and the guard is cleared.
C33_ThrowMidUpdate ==
  (arg.fn = "forward" /\ Len(res) = 1)
    => LET rs == arg.ranges
           applied[k \in 0..Len(rs)] ==
             IF k = 0 THEN arg.content
             ELSE IF SpliceOK(applied[k - 1], rs[k].from, rs[k].to - rs[k].from)
               THEN Splice(applied[k - 1], rs[k].from, rs[k].to - rs[k].from,
                           rs[k].insert)
             ELSE applied[k - 1]
       IN /\ (arg.failAt \in 1..Len(rs) => res[1].threw)
          /\ res[1].threw
               => /\ res[1].returned = "none"
                  /\ ~res[1].guard
                  /\ \E j \in 1..Len(rs) :
                       /\ res[1].changeCalls = j - 1
                       /\ res[1].content = applied[j - 1]
                       /\ (arg.failAt \in 1..Len(rs) => j <= arg.failAt)

C33_Witness ==
  /\ arg.fn = "forward" /\ Len(res) = 1
  /\ Len(arg.ranges) = 2 /\ arg.failAt = 2
  /\ res[1].threw /\ res[1].changeCalls = 1 /\ res[1].content # arg.content
  /\ res[1].returned = "none" /\ ~res[1].guard

\* C34: in _handleRemoteChange a content patch whose action is not 'splice'
\* contributes no editor edit; if at least one splice patch of the
\* notification contributes an edit, exactly those edits are dispatched, in
\* one dispatch, and the full-sync fallback does not run; the fallback runs
\* only when no patch contributed an edit.
C34_OnlySplicePatches ==
  (arg.fn = "notify" /\ Len(res) = 1 /\ ~arg.guard /\ arg.shape = "full")
    => LET splices == SelectSeq(arg.patches,
                        LAMBDA pt : pt.field = "content" /\ pt.action = "splice")
           edits == [i \in 1..Len(splices) |->
                       [from |-> splices[i].index,
                        to |-> splices[i].index
                                + (IF splices[i].length = Undefined THEN 0
                                   ELSE splices[i].length),
                        insert |-> IF splices[i].value = UndefinedText THEN <<>>
                                   ELSE splices[i].value]]
       IN IF Len(splices) > 0
            THEN /\ res[1].route = "patch"
                 /\ res[1].dispatches = 1
                 /\ IF ValidChanges(arg.view, edits)
                      THEN ~res[1].threw /\ res[1].view = ApplyChanges(arg.view, edits, 0)
                      ELSE res[1].threw /\ res[1].view = arg.view
            ELSE /\ res[1].route = "fullsync"
                 /\ ~res[1].threw
                 /\ res[1].dispatches = (IF arg.view = <<"a">> THEN 0 ELSE 1)
                 /\ res[1].view = <<"a">>

C34_Witness ==
  /\ arg.fn = "notify" /\ Len(res) = 1 /\ ~arg.guard /\ arg.shape = "full"
  /\ arg.view = <<"b", "b">>
  /\ arg.patches = <<[action |-> "del", field |-> "content", index |-> 0,
                      length |-> 1, value |-> UndefinedText],
                     [action |-> "splice", field |-> "content", index |-> 0,
                      length |-> Undefined, value |-> <<"a">>]>>
  /\ res[1].route = "patch" /\ res[1].dispatches = 1
  /\ res[1].view = <<"a", "b", "b">>

\* C35: an editor update is skipped as a whole as soon as one of its
\* transactions carries the isRemoteChange annotation: the text changes of
\* the untagged transactions of the same update are not forwarded, and the
\* document keeps its content while the editor text has changed.  An update
\* with no tagged transaction is forwarded.
C35_TaggedBatchSkipped ==
  (arg.fn = "batch" /\ Len(res) = 1)
    => IF \E i \in 1..Len(arg.transactions) : arg.transactions[i]
         THEN /\ res[1].returned = "false"
              /\ res[1].changeCalls = 0
              /\ res[1].content = arg.content
              /\ res[1].view = ApplyChanges(arg.content, arg.ranges, 0)
         ELSE res[1].changeCalls >= 1 \/ res[1].threw

C35_Witness ==
  /\ arg.fn = "batch" /\ Len(res) = 1
  /\ arg.transactions = <<FALSE, TRUE>>
  /\ res[1].returned = "false" /\ res[1].changeCalls = 0
  /\ res[1].content = arg.content /\ res[1].view # res[1].content

\* C36: session consistency.  In every reachable state, also while an
\* openDocument call is pending, getHandle() is non-null only if
\* getDocumentId() is non-null and the session's change handler is
\* registered on that handle.
C36_HandleImpliesReady ==
  handle # Null
    => /\ _documentId # Null
       /\ sync_changeHandler = handle
       /\ listeners[handle] >= 1

\* C37: listener isolation.  During emit(event) a throwing listener stops
\* nothing: the exception does not leave emit, and every listener registered
\* for the event is called exactly once, unless it was removed before its
\* turn; a callback removed through off() or the function on() returned is
\* not registered any more and is never called.
C37_ListenerIsolation ==
  /\ elast.op = "emit"
       => /\ ~elast.propagated
          /\ \A i, j \in 1..Len(elast.called) :
               /\ (i # j => elast.called[i] # elast.called[j])
               /\ (i < j => elast.acts[elast.called[i]].removes # elast.called[j])
          /\ \A i \in 1..Len(elast.called) : IndexOf(elast.before, elast.called[i]) > 0
          /\ \A i \in 1..Len(elast.before) :
               \/ IndexOf(elast.called, elast.before[i]) > 0
               \/ \E j \in 1..Len(elast.called) :
                    elast.acts[elast.called[j]].removes = elast.before[i]
  /\ elast.op \in {"off", "unsubscribe"}
       => IndexOf(_listeners[elast.event], elast.cb) = 0

C37_Witness ==
  /\ elast.op = "emit" /\ elast.before = <<1, 2>>
  /\ elast.acts[1].throws /\ elast.acts[1].removes = 0
  /\ elast.called = <<1, 2>> /\ ~elast.propagated

\* C38: waitForDocumentReady settles exactly once, resolving only with a
\* defined doc; once it has settled, by resolution or by timeout, its
\* change listener is no longer registered on the handle and its timer is
\* cleared.
C38_SettledReleases ==
  \A c \in WaitIds :
    /\ waits[c].pc = "resolved" => hdoc = "defined"
    /\ waits[c].pc \in {"resolved", "rejected"}
         => ~waits[c].listening /\ ~waits[c].timer

\* C39: in every reachable state of the session, isConnected() is true if
\* and only if a repository object exists, across any sequence of connect()
\* and disconnect() calls.
C39_ConnectionFlag ==
  _isConnected <=> repo

\* A session that created a document, disconnected, and has just connected
\* again, building a new Repo.
C39_Witness ==
  /\ slast.op = "connect" /\ slast.built = 1 /\ created # {}
  /\ _isConnected /\ repo

====
